---- MODULE Spec2Model ----
(***************************************************************************)
(* smarkov/markov.py: class Markov.  A variable-order Markov chain is      *)
(* trained from a corpus at construction (_compute_transitions followed by *)
(* _compute_relative_probs) and then sampled by _text_generator.           *)
(*                                                                         *)
(* The constructor is modelled statement by statement (one action per      *)
(* emission counted, one for the normalisation pass), the generator one    *)
(* loop iteration at a time, for every caller thread.                      *)
(***************************************************************************)
EXTENDS Integers, Sequences, FiniteSets, TLC

VARIABLES
    order,        \* self.order, as passed to __init__
    corpus,       \* the corpus argument: [none |-> BOOLEAN, entries |-> Seq(Seq(token))]
    pc,           \* constructor position: "new", "counting", "ready", "failed"
    transitions,  \* self.transitions: key |-> (token |-> [num, den])
    ei,           \* index of the corpus entry being counted
    ti,           \* index into chain(tokens, end_symbol) of that entry
    train_buf,    \* last_tokens of _compute_transitions
    args,         \* per caller thread: the arguments it calls _text_generator with
    call          \* per caller thread: the locals of its _text_generator call

vars == <<order, corpus, pc, transitions, ei, ti, train_buf, args, call>>

----------------------------------------------------------------------------
(* Bounds of the model *)

\* total size of a corpus: the sum over its entries of (tokens + 1)
MaxCorpusSize == 4
\* the same, in the specifications with two concurrent callers / fairness
MaxSmallCorpus == 3
\* emissions an uncapped call may collect before the model stops following it
MaxGen == 4

(* Program constants *)
MIN_ORDER == 1
MAX_ORDER == 20

start_symbol == "^"
end_symbol == "$"

\* token values a tokenizer may produce in the model; the code does not keep
\* the sentinels out of the corpus, so they are among them
CorpusTokens == {"a", "b", start_symbol, end_symbol}

\* order arguments tried: both sides of both assertion bounds
Orders == {0, 1, 2, 20, 21}

\* max_length arguments tried (besides None)
MaxLengths == {0, 1, 2}

EmitKinds == {"identity", "upper", "alt"}

Calls == {1, 2}

----------------------------------------------------------------------------
(* Helpers *)

Last(s) == s[Len(s)]

RECURSIVE SumOver(_, _)
\* sum of f[x] for x in S
SumOver(S, f) ==
    IF S = {} THEN 0
    ELSE LET x == CHOOSE y \in S : TRUE
         IN f[x] + SumOver(S \ {x}, f)

EntriesUpTo(n) == UNION {[1..l -> CorpusTokens] : l \in 0..n}

RECURSIVE CorporaUpTo(_)
\* every corpus whose entries hold, end sentinels included, at most n emissions
CorporaUpTo(n) ==
    IF n = 0 THEN {<<>>}
    ELSE {<<>>} \cup
         UNION {{<<e>> \o r : r \in CorporaUpTo(n - Len(e) - 1)} : e \in EntriesUpTo(n - 1)}

----------------------------------------------------------------------------
(* utils: the sliding buffer, the suffixes, the weighted choice *)

\* utils.prefilled_buffer(start, length): a deque of maxlen length
prefilled_buffer(sym, length) == [i \in 1..length |-> sym]

\* deque.append on a full deque with maxlen: the oldest element is evicted
BufAppend(buf, x) == Append(Tail(buf), x)

\* utils.get_suffixes(buf): the trailing sub-sequences of length 1..len(buf)
get_suffixes(buf) == {SubSeq(buf, i, Len(buf)) : i \in 1..Len(buf)}

\* utils.weighted_choice(items): the outcomes a draw can return
weighted_choice(dist) == {t \in DOMAIN dist : dist[t].num > 0}

----------------------------------------------------------------------------
(* Construction *)

\* the default tokenize argument, lambda x: x
tokenize(entry) == entry

\* chain(tokens, self._end_symbol)
Chain(tokens) == Append(tokens, end_symbol)

\* bug: the upper bound of the order is exclusive
ValidConfig_Strict == order >= MIN_ORDER /\ order < MAX_ORDER /\ ~corpus.none

\* the three assertions of __init__
ValidConfig == order >= MIN_ORDER /\ order <= MAX_ORDER /\ ~corpus.none

\* self.transitions[suffix][token_value] += 1 on a defaultdict of defaultdict(int)
Increment(trans, key, tok) ==
    IF key \notin DOMAIN trans
    THEN trans @@ (key :> (tok :> [num |-> 1, den |-> 1]))
    ELSE IF tok \notin DOMAIN trans[key]
         THEN [trans EXCEPT ![key] = @ @@ (tok :> [num |-> 1, den |-> 1])]
         ELSE [trans EXCEPT ![key][tok].num = @ + 1]

\* bug: the full-length history is left out (an off-by-one in the suffixes taken)
CountedSuffixes_Proper(buf) == get_suffixes(buf) \ {buf}

\* bug: only the full-length history is counted
CountedSuffixes_FullOnly(buf) == {buf}

\* the suffixes of the training buffer that are counted
CountedSuffixes(buf) == get_suffixes(buf)

RECURSIVE IncrementAll(_, _, _)
\* for suffix in get_suffixes(last_tokens): transitions[suffix][token_value] += 1
IncrementAll(trans, keys, tok) ==
    IF keys = {} THEN trans
    ELSE LET k == CHOOSE x \in keys : TRUE
         IN IncrementAll(Increment(trans, k, tok), keys \ {k}, tok)

\* bug: the divisor is the number of next tokens, not the sum of their counts
SummedOccurences_Distinct(counts) == Cardinality(DOMAIN counts)

\* sum(transition_counts.values())
SummedOccurences(counts) == SumOver(DOMAIN counts, [t \in DOMAIN counts |-> counts[t].num])

\* _compute_relative_probs: count * 1.0 / summed_occurences, kept as a fraction
RelativeProbs(trans) ==
    [k \in DOMAIN trans |->
        LET summed == SummedOccurences(trans[k])
        IN IF summed > 0
           THEN [t \in DOMAIN trans[k] |-> [num |-> trans[k][t].num, den |-> summed]]
           ELSE trans[k]]

IdleCall ==
    [pc |-> "idle", last_tokens |-> <<>>, last_emissions |-> <<>>,
     generated_tokens |-> <<>>, sampled |-> <<>>, text |-> <<>>, overflow |-> FALSE]

\* __init__: the assertions, then the first statements of _compute_transitions
Construct ==
    /\ pc = "new"
    /\ IF ValidConfig
       THEN /\ pc' = "counting"
            /\ transitions' = <<>>
            /\ ei' = 1
            /\ ti' = 1
            /\ train_buf' = prefilled_buffer(start_symbol, order)
       ELSE /\ pc' = "failed"
            /\ UNCHANGED <<transitions, ei, ti, train_buf>>
    /\ UNCHANGED <<order, corpus, args, call>>

\* one pass of the inner for loop of _compute_transitions
CountEmission ==
    /\ pc = "counting"
    /\ ei <= Len(corpus.entries)
    /\ LET tokens == Chain(tokenize(corpus.entries[ei]))
           token_value == tokens[ti]
       IN /\ transitions' = IncrementAll(transitions, CountedSuffixes(train_buf), token_value)
          /\ IF ti < Len(tokens)
             THEN /\ ti' = ti + 1
                  /\ ei' = ei
                  /\ train_buf' = BufAppend(train_buf, token_value)
             ELSE /\ ti' = 1
                  /\ ei' = ei + 1
                  /\ train_buf' = prefilled_buffer(start_symbol, order)
    /\ UNCHANGED <<order, corpus, pc, args, call>>

\* the corpus is exhausted: self._compute_relative_probs(self.transitions)
Normalize ==
    /\ pc = "counting"
    /\ ei > Len(corpus.entries)
    /\ transitions' = RelativeProbs(transitions)
    /\ pc' = "ready"
    /\ UNCHANGED <<order, corpus, ei, ti, train_buf, args, call>>

----------------------------------------------------------------------------
(* Generation *)

Upper(t) == CASE t = "a" -> "A" [] t = "b" -> "B" [] OTHER -> t

\* the emit argument of _text_generator: the default lambda x, _, __: x, and two
\* transforms of the kind a subclass passes (the second reads its emission history)
Emit(kind, new_token, last_tokens, last_emissions) ==
    CASE kind = "identity" -> new_token
      [] kind = "upper" -> Upper(new_token)
      [] OTHER -> IF Last(last_emissions) \in {"A", "B"}
                  THEN new_token
                  ELSE Upper(new_token)

\* no order_emissions attribute is set by __init__: order_emissions = self.order
OrderEmissions == order

\* bug: the whole buffer, not its last element, is compared with the sentinel
LoopCondition_WholeBuffer(c) == call[c].last_tokens # <<end_symbol>>

\* while last_tokens[-1] != self._end_symbol
LoopCondition(c) == Last(call[c].last_tokens) # end_symbol

\* bug: the history buffer is kept on the model and shared by the calls
PastStates_Shared(c) == call[1].last_tokens

\* key = tuple(past_states), past_states being the call's own last_tokens
PastStates(c) == call[c].last_tokens

\* bug: the + 1 is missing
CutOff_NoPlusOne(c, generated) ==
    args[c].has_max /\ args[c].max_length <= Len(generated)

\* max_length is not None and max_length + 1 <= len(generated_tokens)
CutOff(c, generated) ==
    args[c].has_max /\ args[c].max_length + 1 <= Len(generated)

\* bug: the raw token is collected
Collected_Raw(new_token, emission) == new_token

\* generated_tokens.append(emission): the value the output collects
Collected(new_token, emission) == emission

\* bug: generated_tokens[1:]
DropLast_First(s) == SubSeq(s, 2, Len(s))

\* bug: nothing is dropped
DropLast_None(s) == s

\* generated_tokens[:-1]
DropLast(s) == SubSeq(s, 1, Len(s) - 1)

\* the head of _text_generator: both buffers pre-filled, nothing generated
StartCall(c) ==
    /\ pc = "ready"
    /\ args[c].active
    /\ call[c].pc \in {"idle", "done", "failed"}
    /\ call' = [call EXCEPT ![c] =
          [pc |-> "loop",
           last_tokens |-> prefilled_buffer(start_symbol, order),
           last_emissions |-> prefilled_buffer(start_symbol, OrderEmissions),
           generated_tokens |-> <<>>,
           sampled |-> <<>>,
           text |-> <<>>,
           overflow |-> FALSE]]
    /\ UNCHANGED <<order, corpus, pc, transitions, ei, ti, train_buf, args>>

\* one iteration of the while loop.  With abstract = FALSE an iteration is only
\* followed while fewer than MaxGen emissions are collected; with abstract = TRUE
\* the iteration always runs and only the first MaxGen emissions are recorded.
LoopBody(c, abstract) ==
    /\ call[c].pc = "loop"
    /\ LoopCondition(c)
    /\ abstract \/ Len(call[c].generated_tokens) < MaxGen
    /\ LET key == PastStates(c)
       IN IF key \notin DOMAIN transitions
          THEN \* assert key in transitions fails
               call' = [call EXCEPT ![c].pc = "failed"]
          ELSE \E new_token \in weighted_choice(transitions[key]) :
                 LET emission == Emit(args[c].emit, new_token,
                                      call[c].last_tokens, call[c].last_emissions)
                     full == Len(call[c].generated_tokens) >= MaxGen
                     generated == IF full THEN call[c].generated_tokens
                                  ELSE Append(call[c].generated_tokens,
                                              Collected(new_token, emission))
                 IN call' = [call EXCEPT ![c] =
                       [pc |-> IF CutOff(c, generated) THEN "ret" ELSE "loop",
                        last_tokens |-> BufAppend(call[c].last_tokens, new_token),
                        last_emissions |-> BufAppend(call[c].last_emissions, emission),
                        generated_tokens |-> generated,
                        sampled |-> IF full THEN call[c].sampled
                                    ELSE Append(call[c].sampled, new_token),
                        text |-> <<>>,
                        overflow |-> call[c].overflow \/ full]]
    /\ UNCHANGED <<order, corpus, pc, transitions, ei, ti, train_buf, args>>

LoopIter(c) == LoopBody(c, FALSE)

LoopIterAbs(c) == LoopBody(c, TRUE)

\* the while condition is false: fall through to the return
LoopExit(c) ==
    /\ call[c].pc = "loop"
    /\ ~LoopCondition(c)
    /\ call' = [call EXCEPT ![c].pc = "ret"]
    /\ UNCHANGED <<order, corpus, pc, transitions, ei, ti, train_buf, args>>

\* text = generated_tokens[:-1]; return text
Return(c) ==
    /\ call[c].pc = "ret"
    /\ call' = [call EXCEPT ![c].pc = "done",
                            ![c].text = DropLast(call[c].generated_tokens)]
    /\ UNCHANGED <<order, corpus, pc, transitions, ei, ti, train_buf, args>>

TrainNext == Construct \/ CountEmission \/ Normalize

ArgSpace ==
    [active : {TRUE}, has_max : {FALSE}, max_length : {0}, emit : EmitKinds]
    \cup [active : {TRUE}, has_max : {TRUE}, max_length : MaxLengths, emit : EmitKinds]

NoCaller == [active |-> FALSE, has_max |-> FALSE, max_length |-> 0, emit |-> "identity"]

InitWith(corpora, orders, argsets) ==
    /\ order \in orders
    /\ corpus \in {[none |-> TRUE, entries |-> <<>>]}
                  \cup {[none |-> FALSE, entries |-> c] : c \in corpora}
    /\ pc = "new"
    /\ transitions = <<>>
    /\ ei = 0
    /\ ti = 0
    /\ train_buf = <<>>
    /\ args \in argsets
    /\ call = [c \in Calls |-> IdleCall]

\* generate_text(max_length): _text_generator with the default emit
TextArgs ==
    {a \in ArgSpace : a.emit = "identity" /\ (a.has_max => a.max_length = 1)}

SmallOrders == {1, 2}

\* one caller, every argument, every corpus and order
Init ==
    InitWith(CorporaUpTo(MaxCorpusSize), Orders,
             {[c \in Calls |-> IF c = 1 THEN a ELSE NoCaller] : a \in ArgSpace})

Next ==
    \/ TrainNext
    \/ \E c \in Calls : StartCall(c) \/ LoopIter(c) \/ LoopExit(c) \/ Return(c)

Spec == Init /\ [][Next]_vars

\* two callers of generate_text on one model, interleaved iteration by iteration
InitConc ==
    InitWith(CorporaUpTo(MaxSmallCorpus), SmallOrders, [Calls -> TextArgs])

SpecConc == InitConc /\ [][Next]_vars

\* one caller of generate_text, every iteration followed
InitLive ==
    InitWith(CorporaUpTo(MaxSmallCorpus), SmallOrders,
             {[c \in Calls |-> IF c = 1 THEN a ELSE NoCaller] :
                 a \in {x \in ArgSpace : x.emit = "identity"}})

NextLive ==
    \/ TrainNext
    \/ \E c \in Calls : StartCall(c) \/ LoopIterAbs(c) \/ LoopExit(c) \/ Return(c)

\* the iteration of call c that draws token t
Draw(c, t) ==
    /\ LoopIterAbs(c)
    /\ call'[c].pc # "failed"
    /\ Last(call'[c].last_tokens) = t

\* the caller of InitLive
LiveCalls == {1}

\* the interpreter runs every started call on; random.random() is fair: a token
\* that has positive weight again and again is eventually drawn
Fairness ==
    /\ \A c \in LiveCalls : WF_vars(LoopIterAbs(c)) /\ WF_vars(LoopExit(c)) /\ WF_vars(Return(c))
    /\ \A c \in LiveCalls : \A t \in CorpusTokens : SF_vars(Draw(c, t))

SpecLive == InitLive /\ [][NextLive]_vars /\ Fairness
----------------------------------------------------------------------------
(* Vocabulary of the properties *)

Sentinels == {start_symbol, end_symbol}

Entries == corpus.entries

\* the token values that occur in the corpus
CorpusTokenSet == UNION {{Entries[i][j] : j \in 1..Len(Entries[i])} : i \in 1..Len(Entries)}

RatAdd(p, q) == [num |-> p.num * q.den + q.num * p.den, den |-> p.den * q.den]

RECURSIVE RatSum(_, _)
\* the sum of the fractions dist[t], t in S
RatSum(S, dist) ==
    IF S = {} THEN [num |-> 0, den |-> 1]
    ELSE LET t == CHOOSE x \in S : TRUE
         IN RatAdd(dist[t], RatSum(S \ {t}, dist))

\* the sum of the counts recorded under the keys of length l
SumCountsLen(l) ==
    LET keys == {k \in DOMAIN transitions : Len(k) = l}
    IN SumOver(keys, [k \in keys |->
           SumOver(DOMAIN transitions[k], [t \in DOMAIN transitions[k] |-> transitions[k][t].num])])

RECURSIVE EmissionsBefore(_)
\* the emissions of the entries before entry i: the sum of (L + 1)
EmissionsBefore(i) ==
    IF i <= 1 THEN 0 ELSE EmissionsBefore(i - 1) + Len(Entries[i - 1]) + 1

RECURSIVE IsWalk(_, _, _)
\* seq[i..] can be sampled from the table, one token after the other, from history h
IsWalk(h, seq, i) ==
    \/ i > Len(seq)
    \/ /\ Last(h) # end_symbol
       /\ h \in DOMAIN transitions
       /\ seq[i] \in DOMAIN transitions[h]
       /\ transitions[h][seq[i]].num > 0
       /\ IsWalk(Append(Tail(h), seq[i]), seq, i + 1)

----------------------------------------------------------------------------
(* C1: once construction has finished, under every key of the table the
   probabilities (count / sum of the key's counts, added as fractions) sum to
   exactly 1 and none of them is 0. *)
C1_ProbabilitiesSumToOne ==
    pc = "ready" =>
        \A k \in DOMAIN transitions :
            /\ DOMAIN transitions[k] # {}
            /\ \A t \in DOMAIN transitions[k] :
                   transitions[k][t].num > 0 /\ transitions[k][t].den > 0
            /\ LET total == RatSum(DOMAIN transitions[k], transitions[k])
               IN total.num = total.den

C1_Witness ==
    /\ pc = "ready"
    /\ order = 2
    /\ \E k \in DOMAIN transitions : \E t, u \in DOMAIN transitions[k] :
           /\ transitions[k][t] = [num |-> 2, den |-> 3]
           /\ transitions[k][u] = [num |-> 1, den |-> 3]

(* C2: construction fails exactly when order < 1, order > 20 or the corpus is
   None, and then before any table is built; every order in 1..20 with a
   corpus is accepted, and the empty corpus yields the empty table. *)
C2_ConfigurationChecked ==
    /\ pc # "new" =>
          (pc = "failed" <=> (order < 1 \/ order > 20 \/ corpus.none))
    /\ pc = "failed" => (transitions = <<>> /\ ei = 0 /\ train_buf = <<>>)
    /\ (pc = "ready" /\ Entries = <<>>) => transitions = <<>>

C2_Witness == pc = "failed" /\ order = 21 /\ ~corpus.none

(* C3: a call with max_length = m on a model of a non-empty corpus samples at
   most m + 1 times and returns what it collected but the last element: j - 1
   tokens when the end sentinel is first sampled at step j <= m + 1, and m
   tokens otherwise; never more than m, and none for m = 0. *)
C3_MaxLengthResult ==
    \A c \in Calls :
        (pc = "ready" /\ Entries # <<>> /\ args[c].has_max) =>
            LET m == args[c].max_length
                j == Len(call[c].sampled)
            IN /\ j <= m + 1
               /\ Len(call[c].generated_tokens) = j
               /\ call[c].pc = "done" =>
                     /\ j >= 1
                     /\ call[c].text = SubSeq(call[c].generated_tokens, 1, j - 1)
                     /\ \A i \in 1..(j - 1) : call[c].sampled[i] # end_symbol
                     /\ IF call[c].sampled[j] = end_symbol
                        THEN Len(call[c].text) = j - 1
                        ELSE Len(call[c].text) = m
                     /\ Len(call[c].text) <= m
                     /\ m = 0 => call[c].text = <<>>

C3_Witness ==
    \E c \in Calls :
        /\ args[c].has_max /\ args[c].max_length = 2
        /\ call[c].pc = "done"
        /\ call[c].sampled = <<"a", "a", "a">>
        /\ call[c].text = <<"a", "a">>

\* the corpus is one or more copies of one entry whose tokens are pairwise distinct
SingleEntryCorpus ==
    /\ Entries # <<>>
    /\ \A i \in 1..Len(Entries) : Entries[i] = Entries[1]
    /\ \A i, j \in 1..Len(Entries[1]) : i # j => Entries[1][i] # Entries[1][j]

C4_Deterministic ==
    /\ \A k \in DOMAIN transitions : Cardinality(DOMAIN transitions[k]) = 1
    /\ \A c \in Calls :
           (call[c].pc = "done" /\ ~args[c].has_max /\ args[c].emit = "identity")
               => call[c].text = Entries[1]

(* C4 as stated: with order 1 and a corpus of copies of one entry of pairwise
   distinct tokens, every key has one next token and generate_text() returns
   the entry. *)
C4_Original ==
    (pc = "ready" /\ order = 1 /\ SingleEntryCorpus) => C4_Deterministic

(* C4, amended: the same, for an entry none of whose tokens is a sentinel. *)
C4_DeterministicChain ==
    (pc = "ready" /\ order = 1 /\ SingleEntryCorpus /\ CorpusTokenSet \cap Sentinels = {})
        => C4_Deterministic

C4_Witness ==
    /\ pc = "ready" /\ order = 1
    /\ Entries = <<<<"a">>, <<"a">>>>
    /\ \E c \in Calls :
           /\ call[c].pc = "done" /\ ~args[c].has_max /\ args[c].emit = "identity"
           /\ call[c].text = <<"a">>

(* C6: on a corpus whose tokens are no sentinels, what generate_text returns
   holds neither sentinel, and only tokens of the corpus. *)
C6_NoSentinelInResult ==
    \A c \in Calls :
        (/\ pc = "ready"
         /\ CorpusTokenSet \cap Sentinels = {}
         /\ args[c].emit = "identity"
         /\ call[c].pc = "done")
        => \A i \in 1..Len(call[c].text) :
               call[c].text[i] \notin Sentinels /\ call[c].text[i] \in CorpusTokenSet

C6_Witness ==
    \E c \in Calls :
        /\ CorpusTokenSet \cap Sentinels = {}
        /\ args[c].emit = "identity" /\ ~args[c].has_max
        /\ call[c].pc = "done"
        /\ call[c].text = <<"b", "a">>

(* C8: while the corpus is counted, the counts under the keys of each length
   1..order sum to the number of emissions counted so far (L + 1 for each entry
   done), no key has another length, and so the counts sum to order times that
   number. *)
C8_IncrementsPerEmission ==
    pc = "counting" =>
        LET counted == EmissionsBefore(ei) + (ti - 1)
        IN /\ \A k \in DOMAIN transitions : Len(k) \in 1..order
           /\ \A l \in 1..order : SumCountsLen(l) = counted
           /\ SumOver(1..order, [l \in 1..order |-> SumCountsLen(l)]) = order * counted

C8_Witness ==
    /\ pc = "counting"
    /\ order = 2
    /\ Len(Entries) = 2 /\ Len(Entries[1]) = 1 /\ Len(Entries[2]) = 1
    /\ ei = 3
    /\ SumCountsLen(1) + SumCountsLen(2) = 8

(* C10: on a model of a non-empty corpus the key looked up by every iteration
   is in the table and no call fails; on the model of the empty corpus a call
   fails at its first step. *)
C10_HistoryKeysKnown ==
    pc = "ready" =>
        \A c \in Calls :
            /\ (Entries # <<>> /\ call[c].pc = "loop"
                    /\ Last(call[c].last_tokens) # end_symbol)
                  => call[c].last_tokens \in DOMAIN transitions
            /\ call[c].pc = "failed" => (Entries = <<>> /\ call[c].sampled = <<>>)
            /\ Entries = <<>> => call[c].pc \in {"idle", "loop", "failed"}
                                    /\ call[c].sampled = <<>>

C10_Witness ==
    /\ pc = "ready" /\ order = 20
    /\ \E c \in Calls :
           /\ call[c].pc = "loop"
           /\ Len(call[c].sampled) = 3
           /\ call[c].last_tokens \in DOMAIN transitions

(* C5: every call finishes.  With max_length = m no call samples more than
   m + 1 times; and, every started call being run on and every token of
   positive weight being drawn again and again where it can be, a call that is
   in its loop is eventually done or has failed on an unknown key. *)
C5_CallsFinish ==
    /\ \A c \in Calls :
           [](args[c].has_max => Len(call[c].sampled) <= args[c].max_length + 1)
    /\ \A c \in LiveCalls :
           (call[c].pc = "loop") ~> (call[c].pc \in {"done", "failed"})

C5_Witness ==
    \E c \in Calls :
        /\ ~args[c].has_max
        /\ call[c].pc = "done"
        /\ call[c].overflow
        /\ Last(call[c].last_tokens) = end_symbol

\* what call c has collected can be sampled from the table, token after token,
\* from the pre-filled history, and its history buffer is the window that leaves
RunAlone(c) ==
    LET g == call[c].generated_tokens
        h0 == [i \in 1..order |-> start_symbol]
        padded == h0 \o g
    IN /\ IsWalk(h0, g, 1)
       /\ call[c].last_tokens = SubSeq(padded, Len(g) + 1, Len(g) + order)
       /\ call[c].pc \in {"ret", "done"} =>
              \/ Last(g) = end_symbol
              \/ args[c].has_max /\ Len(g) = args[c].max_length + 1
       /\ call[c].pc = "done" => call[c].text = SubSeq(g, 1, Len(g) - 1)

(* C7: once construction has finished no step of any call changes the table,
   a step changes the locals of one call only, and what each call collects and
   returns, however the calls interleave, is a run of the table it could make
   alone. *)
C7_TableReadOnly ==
    /\ [][pc = "ready" =>
            /\ pc' = "ready"
            /\ transitions' = transitions
            /\ \A c, d \in Calls :
                   c # d => (call'[c] = call[c] \/ call'[d] = call[d])]_vars
    /\ [](\A c \in Calls :
            (pc = "ready" /\ call[c].pc \in {"loop", "ret", "done"}) => RunAlone(c))

C7_Witness ==
    /\ pc = "ready"
    /\ call[1].pc = "done" /\ call[1].text = <<"a">>
    /\ call[2].pc = "loop" /\ call[2].generated_tokens = <<"a", "a", "a">>

\* this step is an iteration of call c that collected an element
Collects(c) ==
    /\ call[c].pc = "loop"
    /\ Len(call'[c].generated_tokens) = Len(call[c].generated_tokens) + 1

(* C9 as stated: whatever the emit transform, the element an iteration appends
   to the collected output is the raw token it sampled. *)
C9_Original ==
    [][\A c \in Calls :
          Collects(c) =>
              Last(call'[c].generated_tokens) = Last(call'[c].last_tokens)]_vars

(* C9, amended: whatever the emit transform, the element an iteration appends
   to the collected output is the emission emit(new_token, last_tokens,
   last_emissions), the value it also appends to the emissions buffer; the raw
   token goes to the history buffer only, and the sequence returned is made of
   emissions. *)
C9_CollectsEmissions ==
    /\ [][\A c \in Calls :
            Collects(c) =>
                LET raw == Last(call'[c].last_tokens)
                    emission == Emit(args[c].emit, raw,
                                     call[c].last_tokens, call[c].last_emissions)
                IN /\ Last(call'[c].generated_tokens) = emission
                   /\ Last(call'[c].last_emissions) = emission
                   /\ Last(call'[c].sampled) = raw
                   /\ call'[c].last_tokens = Append(Tail(call[c].last_tokens), raw)]_vars
    /\ [](\A c \in Calls :
            call[c].pc = "done" =>
                \A i \in 1..Len(call[c].text) :
                    CASE args[c].emit = "identity" ->
                             call[c].text[i] = call[c].sampled[i]
                      [] args[c].emit = "upper" ->
                             call[c].text[i] = Upper(call[c].sampled[i])
                      [] OTHER ->
                             call[c].text[i] \in
                                 {call[c].sampled[i], Upper(call[c].sampled[i])})

C9_Witness ==
    \E c \in Calls :
        /\ args[c].emit = "upper"
        /\ call[c].pc = "done"
        /\ call[c].sampled = <<"a", "b", "$">>
        /\ call[c].text = <<"A", "B">>
====
